---- MODULE Spec2Model ----
(***************************************************************************)
(* Model of the graph-to-circuit compiler of src/graph/model.rs:           *)
(* execution-bucket assignment, configure (table deduplication and fusion  *)
(* of polynomial ops), layout, and the column counts.                      *)
(*                                                                         *)
(* Node indices are the 0-based usize keys of the source.  A graph is a    *)
(* function 0..n-1 -> node; a node is [opkind, op, inputs].  Tensor        *)
(* shapes and field values are not modelled: a laid-out value is the tag   *)
(* of where it came from.                                                  *)
(***************************************************************************)
EXTENDS Integers, Sequences, FiniteSets, TLC

VARIABLES
    nodes,        \* the node list read by Model::new (index -> node)
    outputs,      \* model.outputs: the node indices of the graph outputs
    visibility,   \* VarVisibility given to Model::new: [input, params, output],
                  \* TRUE = Public; <<>> while no Model was built
    pc,           \* position in the pipeline new -> configure -> layout
    status,       \* "ok", an error name, or "panic"
    error,        \* the fields of the GraphError scheduling returned, if any
    bucket,       \* NodeGraph: index -> bucket of every node inserted so far
    alloc,        \* the column counts the allocator reported for vars
    configs,      \* ModelConfig.configs: index -> NodeConfig
    tables,       \* lookup table registry: key -> index of the creating node
    public_outputs, \* ModelConfig.public_outputs: one range check per entry
    results,      \* layout's results map: index -> value tag
    cursor,       \* number of configs layout has already processed
    order,        \* indices of the configs layout processed, in order
    columns,      \* the columns of vars that configure indexed
    fetched,      \* output nodes whose result layout has fetched
    checked,      \* range checks layout ran: <<output node, instance index>>
    again,        \* what a second compile of the same graph produced
    range_results \* what each output range check returned to layout

vars == <<nodes, outputs, visibility, pc, status, error, bucket, alloc, configs, tables,
          public_outputs, results, cursor, order, columns, fetched, checked, again,
          range_results>>

----------------------------------------------------------------------------
(* Bounds of the model *)

MaxNodes == 3

----------------------------------------------------------------------------
(* Generic helpers *)

SetMax(S) == CHOOSE x \in S : \A y \in S : y <= x

SetMin(S) == CHOOSE x \in S : \A y \in S : x <= y

Range(s) == {s[k] : k \in 1..Len(s)}

Max2(a, b) == IF a >= b THEN a ELSE b

\* the elements of set S of integers as an ascending sequence (BTreeMap order)
RECURSIVE Ascending(_)
Ascending(S) ==
    IF S = {} THEN <<>> ELSE <<SetMin(S)>> \o Ascending(S \ {SetMin(S)})

\* keeps the first occurrence of each element (itertools unique / seen.insert)
RECURSIVE unique(_)
unique(s) ==
    IF s = <<>> THEN <<>>
    ELSE LET front == unique(SubSeq(s, 1, Len(s) - 1))
             x == s[Len(s)]
         IN IF x \in Range(front) THEN front ELSE Append(front, x)

\* position of the first element equal to x, 0-based (Iterator::position)
position(s, x) == SetMin({k \in 1..Len(s) : s[k] = x}) - 1

RECURSIVE Flatten(_)
Flatten(ss) == IF ss = <<>> THEN <<>> ELSE Head(ss) \o Flatten(Tail(ss))

----------------------------------------------------------------------------
(* Nodes and graphs *)

\* Option<usize>::None as a bucket; it orders before every Some(b)
None == -1

LookupOps == {"sigmoid", "relu"}

Node(k, o, ins) == [opkind |-> k, op |-> o, inputs |-> ins]

is_const(n) == n.opkind = "Const"

is_input(n) == n.opkind = "Input"

is_poly(n) == n.opkind = "Poly"

is_lookup(n) == n.opkind = "Lookup"

Arities == {1, 2}

\* sequences over S of a length in Arities
SeqsOf(S) == UNION {[1..k -> S] : k \in Arities}

\* The nodes graph ingestion can put at index i: producers precede consumers,
\* Input and Const nodes have no inputs, a Poly or Lookup node lists one or
\* two inputs (unary and binary ops; a node may list one producer twice).
NodeChoices(i) ==
    {Node("Input", "none", <<>>), Node("Const", "none", <<>>)}
    \cup {Node("Poly", "add", ins) : ins \in SeqsOf(0..(i - 1))}
    \cup {Node("Lookup", o, ins) : o \in LookupOps, ins \in SeqsOf(0..(i - 1))}

Extend(g, i, x) == [j \in 0..i |-> IF j = i THEN x ELSE g[j]]

RECURSIVE GraphsOfLen(_)
GraphsOfLen(n) ==
    IF n = 0 THEN {<<>>}
    ELSE {Extend(g, n - 1, x) : g \in GraphsOfLen(n - 1), x \in NodeChoices(n - 1)}

NumNodes(ns) == Cardinality(DOMAIN ns)

----------------------------------------------------------------------------
(* NodeGraph *)

\* NodeGraph::filter: the node with index idx as the graph holds it; a node
\* the graph does not hold has no kind and no bucket.
filter(ns, bn, idx) ==
    IF idx \in DOMAIN bn
    THEN [idx |-> idx, opkind |-> ns[idx].opkind, op |-> ns[idx].op,
          inputs |-> ns[idx].inputs, bucket |-> bn[idx]]
    ELSE [idx |-> idx, opkind |-> "Absent", op |-> "none",
          inputs |-> <<>>, bucket |-> None]

\* NodeGraph::insert
insert(bn, b, idx) ==
    [j \in (DOMAIN bn) \cup {idx} |-> IF j = idx THEN b ELSE bn[j]]

\* the keys of NodeGraph.0 in iteration order (None first)
bucket_keys(bn) == Ascending({bn[i] : i \in DOMAIN bn})

\* the node indices of one bucket
bucket_nodes(bn, b) == {i \in DOMAIN bn : bn[i] = b}

----------------------------------------------------------------------------
(* Model::assign_execution_buckets *)

\* an inner loop that skips the inputs the graph does not hold yet
sched_inputs_assigned(ns, bn, i) ==
    SelectSeq(ns[i].inputs,
              LAMBDA n : n \in DOMAIN bn /\ ~is_const(filter(ns, bn, n)))

\* the inputs that pass the filter of the inner loop (non-Const producers)
sched_inputs(ns, bn, i) ==
    SelectSeq(ns[i].inputs, LAMBDA n : ~is_const(filter(ns, bn, n)))

\* prev_buckets: the buckets pushed for node i when no input is missing
prev_buckets(ns, bn, i) ==
    LET ins == sched_inputs(ns, bn, i)
    IN [k \in 1..Len(ins) |-> filter(ns, bn, ins[k]).bucket]

\* a Lookup node fused into the bucket of its inputs
LookupBucketFused(prev) == prev

\* a Poly node pushed into a new bucket
PolyBucketNext(prev) == prev + 1

\* a Poly node put into the bucket of the data intake nodes
PolyBucketIntake(prev) == 0

\* a Lookup node that leaves a bucket empty between its inputs and itself
LookupBucketSkip(prev) == prev + 2

\* the bucket the match on opkind assigns to a node, given prev_bucket
LookupBucket(prev) == prev + 1

PolyBucket(prev) == prev

\* an unhandled kind scheduled like a Const node
other_kind_unbucketed(ns, i) == [status |-> "ok", arg |-> <<>>, b |-> None]

\* the last arm of the match on opkind: WrongMethod(node.idx, op)
other_kind(ns, i) ==
    [status |-> "WrongMethod", arg |-> <<i, ns[i].opkind>>, b |-> None]

\* one iteration of the loop over nodes: the outcome for node i
\*   [status, arg, b]; arg holds the fields of the error
assign_node(ns, bn, i) ==
    LET ins == sched_inputs(ns, bn, i)
        missing == {k \in 1..Len(ins) : filter(ns, bn, ins[k]).bucket = None}
        pb == Range(prev_buckets(ns, bn, i))
        k == ns[i].opkind
    IN IF missing # {}
       THEN [status |-> "MissingNode", arg |-> <<ins[SetMin(missing)]>>, b |-> None]
       ELSE CASE k = "Input" -> [status |-> "ok", arg |-> <<>>, b |-> 0]
              [] k = "Const" -> [status |-> "ok", arg |-> <<>>, b |-> None]
              [] k = "Poly" ->
                    IF pb = {} THEN [status |-> "panic", arg |-> <<>>, b |-> None]
                    ELSE [status |-> "ok", arg |-> <<>>, b |-> PolyBucket(SetMax(pb))]
              [] k = "Lookup" ->
                    IF pb = {} THEN [status |-> "panic", arg |-> <<>>, b |-> None]
                    ELSE [status |-> "ok", arg |-> <<>>, b |-> LookupBucket(SetMax(pb))]
              [] OTHER -> other_kind(ns, i)

\* a loop that leaves out a node it cannot schedule and goes on to the next
RECURSIVE assign_from_skipping(_, _, _)
assign_from_skipping(ns, bn, i) ==
    IF i >= NumNodes(ns) THEN [status |-> "ok", arg |-> <<>>, bucket |-> bn]
    ELSE LET r == assign_node(ns, bn, i)
         IN IF r.status # "ok"
            THEN assign_from_skipping(ns, bn, i + 1)
            ELSE assign_from_skipping(ns, insert(bn, r.b, i), i + 1)

\* the loop over nodes from index i on; bn holds the nodes inserted so far
RECURSIVE assign_from(_, _, _)
assign_from(ns, bn, i) ==
    IF i >= NumNodes(ns) THEN [status |-> "ok", arg |-> <<>>, bucket |-> bn]
    ELSE LET r == assign_node(ns, bn, i)
         IN IF r.status # "ok"
            THEN [status |-> r.status, arg |-> r.arg, bucket |-> bn]
            ELSE assign_from(ns, insert(bn, r.b, i), i + 1)

assign_execution_buckets(ns) == assign_from(ns, <<>>, 0)

----------------------------------------------------------------------------
(* Model inputs and outputs (the tract graph's inputs and outputs) *)

\* model.inputs: the Input nodes, in index order
model_inputs(ns) == Ascending({i \in DOMAIN ns : is_input(ns[i])})

\* Model::num_inputs
num_inputs(ns) == Len(model_inputs(ns))

\* Model::num_outputs
num_outputs(outs) == Len(outs)

\* the nodes no other node consumes
Sinks(ns) == {i \in DOMAIN ns : \A j \in DOMAIN ns : i \notin Range(ns[j].inputs)}

\* The output lists a graph can declare: every non-Const node nothing consumes.
OutputChoices(ns) == {Ascending({i \in Sinks(ns) : ~is_const(ns[i])})}

----------------------------------------------------------------------------
(* Resource counting: Model::max_node_* and Model::num_* *)

\* fused_ops of one bucket: its Poly nodes
fused_ops(ns, bn, b) == {i \in bucket_nodes(bn, b) : is_poly(ns[i])}

\* the outside inputs of a set of Poly nodes, one entry per reference
external_inputs_repeated(ns, P) ==
    LET m == Ascending(P)
        all == Flatten([k \in 1..Len(m) |-> ns[m[k]].inputs])
    IN SelectSeq(all, LAMBDA n : n \notin P)

\* the inputs of a set of Poly nodes that lie outside it, first occurrence
\* each, in (node index, input position) order
external_inputs(ns, P) ==
    LET m == Ascending(P)
        all == Flatten([k \in 1..Len(m) |-> ns[m[k]].inputs])
    IN unique(SelectSeq(all, LAMBDA n : n \notin P))

\* params of one bucket in max_node_params
bucket_params(ns, bn, b) ==
    SelectSeq(external_inputs(ns, fused_ops(ns, bn, b)),
              LAMBDA n : is_const(filter(ns, bn, n)))

\* fused_inputs of one bucket in max_node_vars_fused
bucket_fused_inputs(ns, bn, b) ==
    SelectSeq(external_inputs(ns, fused_ops(ns, bn, b)),
              LAMBDA n : ~is_const(filter(ns, bn, n)))

\* non_fused_ops of one bucket in max_node_vars_non_fused
bucket_non_fused(ns, bn, b) ==
    LET lens == {Len(ns[i].inputs) : i \in {j \in bucket_nodes(bn, b) : ~is_poly(ns[j])}}
    IN IF lens = {} THEN 0 ELSE SetMax(lens)

\* the keys of NodeGraph.0
buckets_of(bn) == {bn[i] : i \in DOMAIN bn}

\* a maximum that starts from the count of the previous compile, not from 0
max_node_params_carried(ns, bn) ==
    SetMax({alloc.fixed} \cup {Len(bucket_params(ns, bn, b)) : b \in buckets_of(bn)}) + 1

\* maximum_number_inputs starts at 0 and takes the maximum over the buckets;
\* 1 is added for the layer output
max_node_params(ns, bn) ==
    SetMax({0} \cup {Len(bucket_params(ns, bn, b)) : b \in buckets_of(bn)}) + 1

max_node_vars_fused(ns, bn) ==
    SetMax({0} \cup {Len(bucket_fused_inputs(ns, bn, b)) : b \in buckets_of(bn)}) + 1

max_node_vars_non_fused(ns, bn) ==
    SetMax({0} \cup {bucket_non_fused(ns, bn, b) : b \in buckets_of(bn)}) + 1

num_advice(ns, bn, vis) ==
    IF vis.params
    THEN Max2(max_node_vars_non_fused(ns, bn), max_node_vars_fused(ns, bn))
    ELSE Max2(max_node_vars_non_fused(ns, bn),
              max_node_params(ns, bn) + max_node_vars_fused(ns, bn))

num_fixed(ns, bn, vis) == IF vis.params THEN max_node_params(ns, bn) ELSE 0

\* num_instances listing the output shapes before the input shapes
num_instances_outputs_first(ns, outs, vis) ==
    LET nin == IF vis.input THEN num_inputs(ns) ELSE 0
        sin == IF vis.input THEN model_inputs(ns) ELSE <<>>
        nout == IF vis.output THEN num_outputs(outs) ELSE 0
        sout == IF vis.output THEN outs ELSE <<>>
    IN <<nin + nout, sout \o sin>>

\* Model::num_instances: <<count, shapes>>; a shape is the tag of its node
num_instances(ns, outs, vis) ==
    LET nin == IF vis.input THEN num_inputs(ns) ELSE 0
        sin == IF vis.input THEN model_inputs(ns) ELSE <<>>
        nout == IF vis.output THEN num_outputs(outs) ELSE 0
        sout == IF vis.output THEN outs ELSE <<>>
    IN <<nin + nout, sin \o sout>>

----------------------------------------------------------------------------
(* Model::configure and the routines it calls *)

Advice(k) == [kind |-> "advice", slot |-> k]

Fixed(k) == [kind |-> "fixed", slot |-> k]

NoConfig == [kind |-> "None"]

\* Model::conf_non_op_node: [status, config, arg]; arg holds the fields of
\* the error
conf_non_op_node(ns, i) ==
    CASE ns[i].opkind = "Const" ->
            [status |-> "ok", config |-> [kind |-> "Const"], arg |-> <<>>]
      [] ns[i].opkind = "Input" ->
            [status |-> "ok", config |-> [kind |-> "Input"], arg |-> <<>>]
      [] ns[i].opkind = "Unknown" ->
            [status |-> "panic", config |-> NoConfig, arg |-> <<>>]
      [] OTHER ->
            [status |-> "WrongMethod", config |-> NoConfig, arg |-> <<i, ns[i].opkind>>]

\* whether conf_poly_ops binds external input n to a fixed column
binds_fixed(ns, bn, vis, n) == is_const(filter(ns, bn, n)) /\ vis.params

\* a binding that advances one counter for both column kinds
input_column_one_counter(ns, bn, vis, ext, k) ==
    IF binds_fixed(ns, bn, vis, ext[k]) THEN Fixed(k - 1) ELSE Advice(k - 1)

\* inputs_to_layer: the column of the k-th external input; advice_idx and
\* fixed_idx count the inputs bound before it to a column of the same kind
input_column(ns, bn, vis, ext, k) ==
    IF binds_fixed(ns, bn, vis, ext[k])
    THEN Fixed(Cardinality({j \in 1..(k - 1) : binds_fixed(ns, bn, vis, ext[j])}))
    ELSE Advice(Cardinality({j \in 1..(k - 1) : ~binds_fixed(ns, bn, vis, ext[j])}))

\* the advice slot of the fused gate's output: advice_idx after the last input
output_column(ns, bn, vis, ext) ==
    Advice(Cardinality({j \in 1..Len(ext) : ~binds_fixed(ns, bn, vis, ext[j])}))

\* input_order of every Poly node of group P: for the q-th reference of the
\* flattened input lists, Input(position among the external inputs) or
\* Inter(inter_counter), the counter advancing at every reference into P
input_type(P, ext, all, q) ==
    IF all[q] \notin P
    THEN <<"Input", position(ext, all[q])>>
    ELSE <<"Inter", Cardinality({j \in 1..(q - 1) : all[j] \in P})>>

fused_nodes(ns, P, ext) ==
    LET m == Ascending(P)
        all == Flatten([k \in 1..Len(m) |-> ns[m[k]].inputs])
        start(k) == Len(Flatten([j \in 1..(k - 1) |-> ns[m[j]].inputs]))
    IN [k \in 1..Len(m) |->
          [idx |-> m[k], op |-> ns[m[k]].op,
           input_order |-> [q \in 1..Len(ns[m[k]].inputs) |->
                               input_type(P, ext, all, start(k) + q)]]]

\* Model::conf_poly_ops on the Poly nodes P of one bucket
conf_poly_ops(ns, bn, vis, P) ==
    IF \E i \in P : ~is_poly(ns[i])
    THEN LET e == SetMin({i \in P : ~is_poly(ns[i])})
         IN [status |-> "WrongMethod", config |-> NoConfig, arg |-> <<e, ns[e].opkind>>]
    ELSE LET ext == external_inputs(ns, P)
         IN [status |-> "ok",
             arg |-> <<>>,
             config |-> [kind |-> "Poly",
                         inputs |-> ext,
                         cols |-> [k \in 1..Len(ext) |-> input_column(ns, bn, vis, ext, k)],
                         output |-> output_column(ns, bn, vis, ext),
                         fused |-> fused_nodes(ns, P, ext)]]

\* the key of a Lookup node's table: vec![op]
table_key(ns, i) == <<ns[i].op>>

\* a registry whose entry is replaced by every node asking for it
register_table_replacing(tbl, key, i) ==
    [k \in (DOMAIN tbl) \cup {key} |-> IF k = key THEN i ELSE tbl[k]]

\* the registry after node i asked for its table: a vacant entry is filled
register_table(tbl, key, i) ==
    IF key \in DOMAIN tbl THEN tbl
    ELSE [k \in (DOMAIN tbl) \cup {key} |-> IF k = key THEN i ELSE tbl[k]]

\* Model::conf_table for node i against registry tbl: [status, config, tables]
conf_table(ns, tbl, i) ==
    IF ~is_lookup(ns[i])
    THEN [status |-> "WrongMethod", config |-> NoConfig, tables |-> tbl,
          arg |-> <<i, ns[i].opkind>>]
    ELSE LET key == table_key(ns, i)
             tbl2 == register_table(tbl, key, i)
         IN [status |-> "ok",
             arg |-> <<>>,
             config |-> [kind |-> "Lookup",
                         inputs |-> ns[i].inputs,
                         key |-> key,
                         table |-> tbl2[key],
                         cols |-> <<Advice(0)>>,
                         output |-> Advice(1)],
             tables |-> tbl2]

\* the key under which configure records the fused config of group P
fused_key(P) == SetMax(P)

put(m, k, v) == [j \in (DOMAIN m) \cup {k} |-> IF j = k THEN v ELSE m[j]]

\* the loop over the Lookup nodes of one bucket, in index order
RECURSIVE conf_lookups(_, _, _)
conf_lookups(ns, st, idxs) ==
    IF idxs = <<>> \/ st.status # "ok" THEN st
    ELSE LET r == conf_table(ns, st.tables, Head(idxs))
         IN conf_lookups(ns,
                [status |-> r.status,
                 configs |-> IF r.status = "ok"
                             THEN put(st.configs, Head(idxs), r.config) ELSE st.configs,
                 tables |-> r.tables],
                Tail(idxs))

\* the loop over the Input and Const nodes of one bucket
RECURSIVE conf_non_ops(_, _, _)
conf_non_ops(ns, st, idxs) ==
    IF idxs = <<>> \/ st.status # "ok" THEN st
    ELSE LET r == conf_non_op_node(ns, Head(idxs))
         IN conf_non_ops(ns,
                [st EXCEPT !.status = r.status,
                           !.configs = IF r.status = "ok"
                                       THEN put(st.configs, Head(idxs), r.config)
                                       ELSE st.configs],
                Tail(idxs))

\* one iteration of configure's loop over the buckets
conf_bucket(ns, bn, vis, st, b) ==
    LET members == bucket_nodes(bn, b)
        non_op == Ascending({i \in members : is_const(ns[i]) \/ is_input(ns[i])})
        lookup_ops == Ascending({i \in members : is_lookup(ns[i])})
        poly_ops == {i \in members : is_poly(ns[i])}
        s1 == conf_non_ops(ns, st, non_op)
        s2 == conf_lookups(ns, s1, lookup_ops)
    IN IF s2.status # "ok" \/ poly_ops = {} THEN s2
       ELSE LET r == conf_poly_ops(ns, bn, vis, poly_ops)
            IN [s2 EXCEPT !.status = r.status,
                          !.configs = IF r.status = "ok"
                                      THEN put(s2.configs, fused_key(poly_ops), r.config)
                                      ELSE s2.configs]

RECURSIVE conf_buckets(_, _, _, _, _)
conf_buckets(ns, bn, vis, st, keys) ==
    IF keys = <<>> \/ st.status # "ok" THEN st
    ELSE conf_buckets(ns, bn, vis, conf_bucket(ns, bn, vis, st, Head(keys)), Tail(keys))

\* Model::range_check_outputs: one range check per output, on advice 0 and 1
range_check_outputs(outs) ==
    [k \in 1..Len(outs) |-> [node |-> outs[k], cols |-> <<Advice(0)>>, output |-> Advice(1)]]

\* every column a config or range check indexes
columns_of(c) == Range(c.cols) \cup {c.output}

columns_used(cfgs, pub) ==
    UNION ({columns_of(cfgs[i]) : i \in {j \in DOMAIN cfgs : cfgs[j].kind \in {"Poly", "Lookup"}}}
           \cup {columns_of(pub[k]) : k \in 1..Len(pub)})

\* vars.advices and vars.fixed hold the allocated numbers of columns
in_range(al, c) ==
    IF c.kind = "advice" THEN c.slot < al.advice ELSE c.slot < al.fixed

\* Model::configure: [status, configs, tables, public_outputs, used]; indexing
\* a column vars does not hold panics
configure(ns, bn, vis, outs, al) ==
    LET st == conf_buckets(ns, bn, vis,
                           [status |-> "ok", configs |-> <<>>, tables |-> <<>>],
                           bucket_keys(bn))
        pub == IF vis.output THEN range_check_outputs(outs) ELSE <<>>
        used == columns_used(st.configs, pub)
    IN IF st.status # "ok"
       THEN [status |-> st.status, configs |-> <<>>, tables |-> st.tables,
             public_outputs |-> <<>>, used |-> used]
       ELSE IF \E c \in used : ~in_range(al, c)
       THEN [status |-> "panic", configs |-> <<>>, tables |-> st.tables,
             public_outputs |-> <<>>, used |-> used]
       ELSE [status |-> "ok", configs |-> st.configs, tables |-> st.tables,
             public_outputs |-> pub, used |-> used]

----------------------------------------------------------------------------
(* Model::layout *)

\* the results map after the loop over the supplied inputs: input number k is
\* recorded under key k
seed_key(ns, k) == k

seed_results(ns, vis) ==
    LET n == num_inputs(ns)
    IN [j \in {seed_key(ns, k) : k \in 0..(n - 1)} |->
          LET k == CHOOSE k \in 0..(n - 1) : seed_key(ns, k) = j
          IN IF vis.input THEN <<"instance", k>> ELSE <<"input", k>>]

\* the indices whose recorded result layout_config reads for config c
reads(ns, bn, c) ==
    CASE c.kind = "Poly" ->
            {c.inputs[k] : k \in {j \in 1..Len(c.inputs) : ~is_const(filter(ns, bn, c.inputs[j]))}}
      [] c.kind = "Lookup" -> IF Len(c.inputs) = 1 THEN {c.inputs[1]} ELSE {}
      [] OTHER -> {}

\* a layout_config that lays out a region for Input and Const configs too
layout_config_regions(ns, bn, res, c) ==
    IF c.kind \in {"Input", "Const"} THEN [status |-> "ok", some |-> TRUE]
    ELSE IF c.kind = "Lookup" /\ Len(c.inputs) # 1
    THEN [status |-> "InvalidLookupInputs", some |-> FALSE]
    ELSE IF reads(ns, bn, c) \subseteq DOMAIN res
    THEN [status |-> "ok", some |-> TRUE]
    ELSE [status |-> "panic", some |-> FALSE]

\* Model::layout_config: [status, some]; some = a value is returned
layout_config(ns, bn, res, c) ==
    CASE c.kind = "Poly" ->
            IF reads(ns, bn, c) \subseteq DOMAIN res
            THEN [status |-> "ok", some |-> TRUE]
            ELSE [status |-> "panic", some |-> FALSE]
      [] c.kind = "Lookup" ->
            IF Len(c.inputs) # 1
            THEN [status |-> "InvalidLookupInputs", some |-> FALSE]
            ELSE IF c.inputs[1] \in DOMAIN res
            THEN [status |-> "ok", some |-> TRUE]
            ELSE [status |-> "panic", some |-> FALSE]
      [] c.kind \in {"Input", "Const"} -> [status |-> "ok", some |-> FALSE]
      [] OTHER -> [status |-> "UnsupportedOp", some |-> FALSE]

\* the keys of config.configs in iteration order
config_keys(cfgs) == Ascending(DOMAIN cfgs)

\* an offset that leaves the outputs on the instance columns of the inputs
instance_offset_unshifted(ns, vis) == 0

\* the instance column output number k (0-based) is range-checked against
instance_offset(ns, vis) == IF vis.input THEN num_inputs(ns) ELSE 0

range_checks(ns, vis, pub, outs) ==
    LET n == IF Len(pub) <= Len(outs) THEN Len(pub) ELSE Len(outs)
    IN [k \in 1..n |-> <<outs[k], instance_offset(ns, vis) + (k - 1)>>]

\* what RangeCheckConfig::layout can hand back for one output: the region is
\* laid out and the output is within tolerance of the instance value, it is
\* laid out and the output is off by more, or the region failed
RangeCheckOutcomes == {"within", "mismatch", "failed"}

\* a layout that returns the failure of a range check
layout_result_checked(rs) ==
    IF \A k \in 1..Len(rs) : rs[k] = "within" THEN "ok" ELSE "RangeCheck"

\* what layout returns after the range checks: their results are dropped
layout_result(rs) == "ok"

----------------------------------------------------------------------------
(* The graphs of the specification's scenarios *)

\* Scenario A: Input -> Poly(add, one Const operand) -> Poly(mul, one Const operand)
ScenarioA(a, b) ==
    (0 :> Node("Input", "none", <<>>)) @@ (1 :> Node("Const", "none", <<>>))
    @@ (2 :> Node("Poly", "add", a)) @@ (3 :> Node("Const", "none", <<>>))
    @@ (4 :> Node("Poly", "mul", b))

ScenarioAGraphs ==
    {ScenarioA(a, b) : a \in {<<0, 1>>, <<1, 0>>}, b \in {<<2, 3>>, <<3, 2>>}}

\* Scenario B: Input -> Lookup(sigmoid) -> Lookup(sigmoid)
ScenarioB ==
    (0 :> Node("Input", "none", <<>>)) @@ (1 :> Node("Lookup", "sigmoid", <<0>>))
    @@ (2 :> Node("Lookup", "sigmoid", <<1>>))

\* a branching network: two Poly branches of the input, a Lookup on the first,
\* and a Poly joining the Lookup with the second branch
Branching ==
    (0 :> Node("Input", "none", <<>>)) @@ (1 :> Node("Poly", "add", <<0>>))
    @@ (2 :> Node("Poly", "add", <<0>>)) @@ (3 :> Node("Lookup", "relu", <<1>>))
    @@ (4 :> Node("Poly", "add", <<3, 2>>))

WellFormedGraphs == UNION {GraphsOfLen(n) : n \in 1..MaxNodes}

\* The nodes of a node map handed to assign_execution_buckets directly: a
\* node may be of a kind the scheduler does not handle, may list no input, and
\* may list itself, a later node or an index the map does not hold (index 2 of
\* a two-node map).
UncheckedNodes ==
    {Node("Input", "none", <<>>), Node("Const", "none", <<>>)}
    \cup {Node(k[1], k[2], ins) :
             k \in {<<"Poly", "add">>, <<"Lookup", "relu">>, <<"Unknown", "none">>},
             ins \in {<<>>} \cup SeqsOf(0..2)}

UncheckedGraphs == [0..1 -> UncheckedNodes]

Graphs == WellFormedGraphs \cup ScenarioAGraphs \cup {ScenarioB, Branching}

Visibilities == [input : BOOLEAN, params : BOOLEAN, output : BOOLEAN]

----------------------------------------------------------------------------
(* The pipeline: Model::new, Model::configure, Model::layout *)

NoAlloc == [advice |-> 0, fixed |-> 0, instances |-> 0, shapes |-> <<>>]

Init ==
    /\ nodes \in Graphs \cup UncheckedGraphs
    /\ outputs \in OutputChoices(nodes)
    /\ visibility = <<>>
    /\ pc = "init"
    /\ status = "ok"
    /\ error = <<>>
    /\ bucket = <<>>
    /\ alloc = NoAlloc
    /\ configs = <<>>
    /\ tables = <<>>
    /\ public_outputs = <<>>
    /\ results = <<>>
    /\ cursor = 0
    /\ order = <<>>
    /\ columns = {}
    /\ fetched = <<>>
    /\ checked = <<>>
    /\ again = <<>>
    /\ range_results = <<>>

\* Model::new with a visibility policy: the nodes are bucketed, or the error
\* is returned
New ==
    /\ pc = "init"
    /\ nodes \in Graphs
    /\ visibility' \in Visibilities
    /\ \E r \in {assign_execution_buckets(nodes)} :
          /\ status' = r.status
          /\ error' = r.arg
          /\ bucket' = IF r.status = "ok" THEN r.bucket ELSE <<>>
    /\ pc' = "new"
    /\ UNCHANGED <<nodes, outputs, again, range_results, alloc, configs, tables,
                   public_outputs, results, cursor, order, columns, fetched,
                   checked>>

\* assign_execution_buckets called on a node map that did not come out of
\* Model::new's loop: the NodeGraph or the error
Schedule ==
    /\ pc = "init"
    /\ nodes \in UncheckedGraphs
    /\ \E r \in {assign_execution_buckets(nodes)} :
          /\ status' = r.status
          /\ error' = r.arg
          /\ bucket' = IF r.status = "ok" THEN r.bucket ELSE <<>>
    /\ pc' = "scheduled"
    /\ UNCHANGED <<nodes, outputs, visibility, again, range_results, alloc,
                   configs, tables, public_outputs, results, cursor, order,
                   columns, fetched, checked>>

\* the driver sizes vars from num_advice, num_fixed and num_instances
Allocate ==
    /\ pc = "new"
    /\ status = "ok"
    /\ alloc' = [advice |-> num_advice(nodes, bucket, visibility),
                 fixed |-> num_fixed(nodes, bucket, visibility),
                 instances |-> num_instances(nodes, outputs, visibility)[1],
                 shapes |-> num_instances(nodes, outputs, visibility)[2]]
    /\ pc' = "allocated"
    /\ UNCHANGED <<nodes, outputs, visibility, again, range_results, status,
                   error, bucket, configs, tables, public_outputs, results,
                   cursor, order, columns, fetched, checked>>

\* Model::configure on a model that Model::new returned
Configure ==
    /\ pc = "allocated"
    /\ status = "ok"
    /\ \E r \in {configure(nodes, bucket, visibility, outputs, alloc)} :
          /\ status' = r.status
          /\ configs' = r.configs
          /\ tables' = r.tables
          /\ public_outputs' = r.public_outputs
          /\ columns' = r.used
    /\ pc' = "configured"
    /\ UNCHANGED <<nodes, outputs, visibility, again, range_results, error,
                   bucket, alloc, results, cursor, order, fetched, checked>>

\* the same graph compiled once more with the same visibility: Model::new,
\* the column counts and Model::configure
Recompile ==
    /\ pc = "configured"
    /\ status = "ok"
    /\ \E r \in {assign_execution_buckets(nodes)} :
          \E al \in {[advice |-> num_advice(nodes, r.bucket, visibility),
                       fixed |-> num_fixed(nodes, r.bucket, visibility),
                       instances |-> num_instances(nodes, outputs, visibility)[1],
                       shapes |-> num_instances(nodes, outputs, visibility)[2]]} :
             \E c \in {configure(nodes, r.bucket, visibility, outputs, al)} :
                again' = [status |-> c.status, bucket |-> r.bucket, alloc |-> al,
                          keys |-> DOMAIN c.tables]
    /\ pc' = "recompiled"
    /\ UNCHANGED <<nodes, outputs, visibility, status, error, bucket, alloc,
                   configs, tables, public_outputs, results, cursor, order,
                   columns, fetched, checked, range_results>>

\* Model::layout, the loop over the supplied inputs
LayoutInputs ==
    /\ pc = "configured"
    /\ status = "ok"
    /\ results' = seed_results(nodes, visibility)
    /\ pc' = "layout"
    /\ UNCHANGED <<nodes, outputs, visibility, again, range_results, status,
                   error, bucket, alloc, configs, tables, public_outputs,
                   cursor, order, columns, fetched, checked>>

\* Model::layout, one iteration of the loop over config.configs
LayoutConfig ==
    /\ pc = "layout"
    /\ status = "ok"
    /\ cursor < Len(config_keys(configs))
    /\ \E idx \in {config_keys(configs)[cursor + 1]} :
       \E r \in {layout_config(nodes, bucket, results, configs[idx])} :
          /\ status' = r.status
          /\ results' = IF r.status = "ok" /\ r.some
                        THEN put(results, idx, <<"region", idx>>) ELSE results
          /\ order' = Append(order, idx)
    /\ cursor' = cursor + 1
    /\ UNCHANGED <<nodes, outputs, visibility, again, range_results, pc, error,
                   bucket, alloc, configs, tables, public_outputs, columns,
                   fetched, checked>>

\* Model::layout, after the loop: the outputs are fetched and range-checked
LayoutOutputs ==
    /\ pc = "layout"
    /\ status = "ok"
    /\ cursor = Len(config_keys(configs))
    /\ IF Range(outputs) \subseteq DOMAIN results
       THEN /\ fetched' = outputs
            /\ checked' = range_checks(nodes, visibility, public_outputs, outputs)
            /\ \E rs \in [1..Len(range_checks(nodes, visibility, public_outputs, outputs))
                            -> RangeCheckOutcomes] :
                  /\ range_results' = rs
                  /\ status' = layout_result(rs)
            /\ pc' = "done"
       ELSE /\ status' = "panic"
            /\ UNCHANGED <<fetched, checked, pc, range_results>>
    /\ UNCHANGED <<nodes, outputs, visibility, again, error, bucket, alloc,
                   configs, tables, public_outputs, results, cursor, order,
                   columns>>

\* Model::conf_non_op_node called on one node of a node map; the routine
\* reads the node and nothing of the model
ConfNonOpNode ==
    /\ pc = "init"
    /\ \E i \in DOMAIN nodes :
       \E r \in {conf_non_op_node(nodes, i)} :
          /\ status' = r.status
          /\ error' = r.arg
          /\ configs' = IF r.status = "ok" THEN put(<<>>, i, r.config) ELSE <<>>
          /\ order' = <<i>>
    /\ pc' = "conf_non_op_node"
    /\ UNCHANGED <<nodes, outputs, visibility, again, range_results, bucket,
                   alloc, tables, public_outputs, results, cursor, columns,
                   fetched, checked>>

\* Model::conf_table called on one node of the model's NodeGraph, with an
\* empty table registry
ConfTable ==
    /\ pc = "scheduled"
    /\ status = "ok"
    /\ \E i \in DOMAIN nodes :
       \E r \in {conf_table(nodes, <<>>, i)} :
          /\ status' = r.status
          /\ error' = r.arg
          /\ configs' = IF r.status = "ok" THEN put(<<>>, i, r.config) ELSE <<>>
          /\ tables' = r.tables
          /\ order' = <<i>>
    /\ pc' = "conf_table"
    /\ UNCHANGED <<nodes, outputs, visibility, again, range_results, bucket,
                   alloc, public_outputs, results, cursor, columns, fetched,
                   checked>>

\* Model::conf_poly_ops called on a non-empty map of nodes of the model's
\* NodeGraph
ConfPolyOps ==
    /\ pc = "scheduled"
    /\ status = "ok"
    /\ visibility' \in Visibilities
    /\ \E P \in (SUBSET DOMAIN nodes) \ {{}} :
       \E r \in {conf_poly_ops(nodes, bucket, visibility', P)} :
          /\ status' = r.status
          /\ error' = r.arg
          /\ configs' = IF r.status = "ok" THEN put(<<>>, fused_key(P), r.config) ELSE <<>>
          /\ order' = Ascending(P)
    /\ pc' = "conf_poly_ops"
    /\ UNCHANGED <<nodes, outputs, again, range_results, bucket, alloc, tables,
                   public_outputs, results, cursor, columns, fetched, checked>>

Next == New \/ Schedule \/ Allocate \/ Configure \/ Recompile \/ LayoutInputs \/ LayoutConfig \/ LayoutOutputs

Spec == Init /\ [][Next]_vars

\* layout runs to its end once called: every step of the sequential pass is taken
FairSpec == Spec /\ WF_vars(Next)

\* The configure routines one at a time, on the node maps
\* assign_execution_buckets takes
RoutineInit == Init /\ nodes \in UncheckedGraphs

RoutineNext == Schedule \/ ConfNonOpNode \/ ConfTable \/ ConfPolyOps

RoutineSpec == RoutineInit /\ [][RoutineNext]_vars

----------------------------------------------------------------------------
(* Properties *)

\* assign_execution_buckets has just returned a NodeGraph: every node was
\* inserted (the NodeGraph is not changed afterwards)
Scheduled == pc \in {"new", "scheduled"} /\ DOMAIN bucket = DOMAIN nodes

\* configure has just returned a ModelConfig (it is not changed afterwards)
Configured == pc = "configured" /\ status = "ok"

\* the distinct non-Const producers node i lists
NonConstInputs(i) == {n \in Range(nodes[i].inputs) : nodes[n].opkind # "Const"}

\* C1: after scheduling succeeds, the bucket of every Lookup node is strictly
\* greater than the bucket of each of its non-Const inputs and equals the
\* maximum of those buckets plus one.
C1_LookupBucket ==
    Scheduled =>
        \A i \in DOMAIN nodes :
            nodes[i].opkind = "Lookup" =>
                /\ NonConstInputs(i) # {}
                /\ \A n \in NonConstInputs(i) : bucket[i] > bucket[n]
                /\ \E n \in NonConstInputs(i) :
                      /\ bucket[i] = bucket[n] + 1
                      /\ \A m \in NonConstInputs(i) : bucket[m] <= bucket[n]

\* a scheduled Lookup node with two non-Const inputs of different buckets
C1_Witness ==
    /\ Scheduled
    /\ \E i \in DOMAIN nodes :
          /\ nodes[i].opkind = "Lookup"
          /\ \E n, m \in NonConstInputs(i) : bucket[n] < bucket[m]

\* C2: after scheduling succeeds, the bucket of every Poly node equals the
\* maximum of the buckets of its non-Const inputs; Const inputs do not count.
C2_PolyBucket ==
    Scheduled =>
        \A i \in DOMAIN nodes :
            nodes[i].opkind = "Poly" =>
                /\ \A n \in NonConstInputs(i) : bucket[n] <= bucket[i]
                /\ \E n \in NonConstInputs(i) : bucket[n] = bucket[i]

\* a scheduled Poly node with two non-Const inputs of different buckets
C2_Witness ==
    /\ Scheduled
    /\ \E i \in DOMAIN nodes :
          /\ nodes[i].opkind = "Poly"
          /\ \E n, m \in NonConstInputs(i) : bucket[n] < bucket[m]

\* every Lookup node lists exactly one input
SingleInputLookups ==
    \A i \in DOMAIN nodes : nodes[i].opkind = "Lookup" => Len(nodes[i].inputs) = 1

\* the Input nodes hold the lowest indices, so that input number k is node k
InputsFirst ==
    \A k \in 1..Len(model_inputs(nodes)) : model_inputs(nodes)[k] = k - 1

\* the config layout processes next
NextConfig == configs[config_keys(configs)[cursor + 1]]

\* C3: during layout of a graph that was scheduled and configured, whenever a
\* Poly or Lookup config is processed, every non-Const input index it reads
\* already has an entry in the results map.  Stated for the graphs whose
\* Input nodes come first, where the seeded keys are the Input nodes' indices.
C3_NoMissingRead ==
    (InputsFirst /\ pc = "layout" /\ status = "ok"
        /\ cursor < Len(config_keys(configs))) =>
        reads(nodes, bucket, NextConfig) \subseteq DOMAIN results

\* C4: layout of a compiled graph reaches its terminal state: no step of
\* layout fails, and at the end every declared output has been fetched from
\* the results map and, when outputs are Public, range-checked exactly once
\* against its instance value (never when outputs are Private).  Stated for
\* the graphs whose Lookup nodes have one input and whose Input nodes come first.
C4_LayoutTerminal ==
    (SingleInputLookups /\ InputsFirst) =>
        /\ pc = "layout" => status = "ok"
        /\ pc = "done" =>
              /\ fetched = outputs
              /\ Range(outputs) \subseteq DOMAIN results
              /\ Len(checked) = (IF visibility.output THEN Len(outputs) ELSE 0)
              /\ \A k \in 1..Len(checked) :
                    checked[k] = <<outputs[k], instance_offset(nodes, visibility) + (k - 1)>>

\* the Lookup nodes of the graph
LookupNodes == {i \in DOMAIN nodes : nodes[i].opkind = "Lookup"}

\* node i is asked for before node j in configure: lower bucket first, then
\* lower index
ConfiguredBefore(i, j) ==
    bucket[i] < bucket[j] \/ (bucket[i] = bucket[j] /\ i < j)

\* C5: within one configure pass, Lookup nodes with equal operation-list keys
\* hold the same table; the registry has exactly one entry per distinct key,
\* created by the first node in (bucket, index) order that asks for it, so the
\* number of tables is the number of distinct keys.  In Scenario B the two
\* sigmoid lookups are in buckets 1 and 2 and share one table.
C5_SharedTables ==
    Configured =>
        /\ DOMAIN tables = {<<nodes[i].op>> : i \in LookupNodes}
        /\ Cardinality(DOMAIN tables) = Cardinality({nodes[i].op : i \in LookupNodes})
        /\ \A i \in LookupNodes :
              /\ configs[i].kind = "Lookup"
              /\ configs[i].table = tables[<<nodes[i].op>>]
              /\ nodes[configs[i].table].op = nodes[i].op
              /\ configs[i].table = i \/ ConfiguredBefore(configs[i].table, i)
        /\ \A i, j \in LookupNodes :
              nodes[i].op = nodes[j].op => configs[i].table = configs[j].table
        /\ nodes = ScenarioB =>
              /\ bucket[1] = 1 /\ bucket[2] = 2
              /\ Cardinality(DOMAIN tables) = 1
              /\ configs[1].table = 1 /\ configs[2].table = 1

\* a configured graph with more Lookup nodes than tables
C5_Witness ==
    /\ Configured
    /\ \E i, j \in LookupNodes : i # j /\ nodes[i].op = nodes[j].op
    /\ Cardinality(DOMAIN tables) < Cardinality(LookupNodes)

\* C6: for every bucket and every visibility policy, the columns configure
\* indexes stay inside the allocated counts: the advice slots of each fusion
\* group (external inputs and output), advice slots 0 and 1 of each Lookup
\* node and of each output range check, and the fixed slots of Public
\* constants are strictly below num_advice() and num_fixed().
C6_ColumnsInRange ==
    pc \in {"configured", "layout", "done"} =>
        \A c \in columns :
            /\ c.kind = "advice" => c.slot < alloc.advice
            /\ c.kind = "fixed" => c.slot < alloc.fixed

\* the allocator has reported the column counts
Allocated == pc \notin {"init", "new", "scheduled"}

\* the numeric buckets and the Poly nodes (the fusion group) of bucket b
Buckets == {bucket[i] : i \in DOMAIN bucket}

Group(b) == {i \in DOMAIN nodes : bucket[i] = b /\ nodes[i].opkind = "Poly"}

\* the distinct producers outside group b that its nodes consume
External(b) ==
    {n \in DOMAIN nodes : n \notin Group(b) /\ \E i \in Group(b) : n \in Range(nodes[i].inputs)}

ConstExternal(b) == {n \in External(b) : nodes[n].opkind = "Const"}

VarExternal(b) == {n \in External(b) : nodes[n].opkind # "Const"}

\* the largest count of distinct constant external inputs of one fusion group
MaxParams == SetMax({0} \cup {Cardinality(ConstExternal(b)) : b \in Buckets})

\* 1 + the largest number of distinct non-constant external inputs of a group
MaxVarsFused == 1 + SetMax({0} \cup {Cardinality(VarExternal(b)) : b \in Buckets})

\* 1 + the largest input count of a node that is not a Poly node
MaxVarsNonFused ==
    1 + SetMax({0} \cup {Len(nodes[i].inputs) : i \in {j \in DOMAIN nodes : nodes[j].opkind # "Poly"}})

\* C7: num_fixed() equals the largest count of distinct constant external
\* inputs over any one bucket's fusion group when params are Public, and 0
\* when params are Private.
C7_NumFixed ==
    Allocated => alloc.fixed = (IF visibility.params THEN MaxParams ELSE 0)

\* C8: Scenario A. Both Poly nodes get bucket 0 and are configured as one
\* fused gate, and with params Public num_advice is 2 and num_fixed is 2.
C8_ScenarioA ==
    (nodes \in ScenarioAGraphs /\ Allocated) =>
        /\ bucket[2] = 0 /\ bucket[4] = 0
        /\ Configured =>
              /\ {i \in DOMAIN configs : configs[i].kind = "Poly"} = {4}
              /\ {configs[4].fused[k].idx : k \in 1..Len(configs[4].fused)} = {2, 4}
        /\ visibility.params => (alloc.advice = 2 /\ alloc.fixed = 2)

\* C9: num_advice() is max(max_vars_non_fused, max_vars_fused) when params are
\* Public and max(max_vars_non_fused, max_vars_fused + max_params) when params
\* are Private.
C9_NumAdvice ==
    Allocated =>
        alloc.advice = (IF visibility.params
                        THEN Max2(MaxVarsNonFused, MaxVarsFused)
                        ELSE Max2(MaxVarsNonFused, MaxVarsFused + MaxParams))

\* the Input nodes of the graph
InputNodes == {i \in DOMAIN nodes : nodes[i].opkind = "Input"}

Unvisited(i) == {k \in 1..Len(nodes[i].inputs) : nodes[i].inputs[k] \notin 0..(i - 1)}

Dangling == {i \in DOMAIN nodes : Unvisited(i) # {}}

\* node i stops the scheduler for another reason than a missing input: its
\* kind is not handled, or it is an operation without a non-Const input
Stops(i) ==
    /\ Unvisited(i) = {}
    /\ \/ nodes[i].opkind \notin {"Input", "Const", "Poly", "Lookup"}
       \/ /\ nodes[i].opkind \in {"Poly", "Lookup"}
          /\ \A n \in Range(nodes[i].inputs) : nodes[n].opkind = "Const"

\* the scheduler visits node i: no node before it made it return
Visited(i) == \A j \in 0..(i - 1) : Unvisited(j) = {} /\ ~Stops(j)

\* C11: scheduling a graph in which a consumer lists an input index that was
\* never assigned a bucket (a dangling or forward reference) returns no
\* NodeGraph; when the scheduler gets to the first such consumer, the error is
\* MissingNode carrying the first such input index of that consumer.
C11_MissingNode ==
    (pc # "init" /\ Dangling # {}) =>
        /\ status # "ok"
        /\ bucket = <<>>
        /\ \A i \in Dangling :
              Visited(i) =>
                  /\ status = "MissingNode"
                  /\ error = <<nodes[i].inputs[SetMin(Unvisited(i))]>>

\* the second node lists a visited producer and then an index the map lacks
C11_Witness ==
    /\ pc = "scheduled"
    /\ status = "MissingNode"
    /\ Dangling = {1}
    /\ Len(nodes[1].inputs) = 2
    /\ nodes[1].inputs[1] = 0 /\ nodes[0].opkind = "Input"
    /\ nodes[1].inputs[2] = 2
    /\ error = <<2>>

\* the nodes whose kind is neither Input, Const, Poly nor Lookup
Unhandled == {i \in DOMAIN nodes : nodes[i].opkind \notin {"Input", "Const", "Poly", "Lookup"}}

\* C12: a node whose kind is neither Input, Const, Poly nor Lookup (an Unknown
\* op) makes scheduling fail; when the scheduler gets to the match on the kind
\* of such a node (no earlier node made it return, and the node's own inputs
\* all have been visited) the error is WrongMethod carrying that node's index
\* and kind.
C12_WrongMethod ==
    (pc # "init" /\ Unhandled # {}) =>
        /\ status # "ok"
        /\ bucket = <<>>
        /\ \A i \in Unhandled :
              (Visited(i) /\ Unvisited(i) = {}) =>
                  /\ status = "WrongMethod"
                  /\ error = <<i, nodes[i].opkind>>

\* an Unknown node that consumes a scheduled Input node
C12_Witness ==
    /\ pc = "scheduled"
    /\ status = "WrongMethod"
    /\ nodes[0].opkind = "Input"
    /\ nodes[1].opkind = "Unknown" /\ Range(nodes[1].inputs) = {0}
    /\ error = <<1, "Unknown">>

\* the Lookup nodes that do not list exactly one input
BadLookups == {i \in LookupNodes : Len(nodes[i].inputs) # 1}

\* C13: every Lookup node that does not have exactly one input makes the
\* compile fail with InvalidLookupInputs: the pipeline ends with that error and
\* with no other failure.  Stated for the node maps of Input and Lookup nodes
\* (op "relu" or "sigmoid") that list visited inputs only and whose Input
\* nodes come first.
C13_InvalidLookupInputs ==
    (/\ BadLookups # {}
     /\ \A i \in DOMAIN nodes : nodes[i].opkind \in {"Input", "Lookup"}
     /\ Dangling = {}
     /\ InputsFirst) =>
        /\ status \in {"ok", "InvalidLookupInputs"}
        /\ pc # "done"

ConstNodes == {i \in DOMAIN nodes : nodes[i].opkind = "Const"}

\* C14: after scheduling, a node has bucket None if and only if it is a Const
\* node; a Const node is configured as NodeConfig::Const, which holds no
\* column, and layout never records the result of a region under its index.
C14_ConstNodes ==
    /\ Scheduled => \A i \in DOMAIN nodes : (bucket[i] = None) <=> (i \in ConstNodes)
    /\ Configured =>
          \A i \in ConstNodes :
              /\ i \in DOMAIN configs
              /\ configs[i] = [kind |-> "Const"]
    /\ \A i \in ConstNodes : i \in DOMAIN results => results[i][1] # "region"

\* layout has processed the config of a Const node that a Poly node consumes
C14_Witness ==
    /\ pc = "layout"
    /\ \E i \in ConstNodes :
          /\ i \in Range(order)
          /\ \E j \in DOMAIN nodes : nodes[j].opkind = "Poly" /\ i \in Range(nodes[j].inputs)
          /\ bucket[i] = None
          /\ i \notin DOMAIN results

C16_RangeCheckNotAnError ==
    pc = "done" =>
        /\ status = "ok"
        /\ Len(range_results) = Len(checked)

\* layout has returned although one range check found a mismatch and another
\* one failed
C16_Witness ==
    /\ pc = "done"
    /\ status = "ok"
    /\ {"mismatch", "failed"} \subseteq Range(range_results)

\* the direct and transitive non-Const producers of node i
RECURSIVE Producers(_)
Producers(i) == NonConstInputs(i) \cup UNION {Producers(n) : n \in NonConstInputs(i)}

\* C17: the bucket assignment preserves topological order: for every
\* scheduled node, each of its direct and transitive non-Const producers has a
\* bucket less than or equal to the node's own bucket, so no node of an
\* earlier bucket depends on a node of a later bucket.
C17_TopologicalOrder ==
    Scheduled =>
        \A i \in DOMAIN nodes :
            \A n \in Producers(i) :
                /\ bucket[n] # None
                /\ bucket[i] # None
                /\ bucket[n] <= bucket[i]

\* a Poly node that depends on the graph input through a Lookup node
C17_Witness ==
    /\ Scheduled
    /\ \E i \in DOMAIN nodes :
          /\ nodes[i].opkind = "Poly"
          /\ \E n \in NonConstInputs(i) :
                /\ nodes[n].opkind = "Lookup"
                /\ \E m \in Producers(n) : m \notin NonConstInputs(i) /\ bucket[m] < bucket[i]

\* the Lookup nodes of bucket b
BucketLookups(b) == {i \in LookupNodes : bucket[i] = b}

\* the orders in which the nodes of S can be processed
Orders(S) == {p \in [1..Cardinality(S) -> S] : Range(p) = S}

\* the table registry as the buckets before b left it
TablesBefore(b) ==
    [k \in {<<nodes[i].op>> : i \in {j \in LookupNodes : bucket[j] < b}} |-> tables[k]]

\* configure's loop over the Lookup nodes of bucket b, taken in order p
LookupPass(b, p) ==
    conf_lookups(nodes, [status |-> "ok", configs |-> <<>>, tables |-> TablesBefore(b)], p)

\* a Lookup config without the identity of the node that created its table
Unshared(c) == [kind |-> c.kind, inputs |-> c.inputs, key |-> c.key,
                cols |-> c.cols, output |-> c.output]

\* C18: Lookup nodes of the same bucket are independent: every direct or
\* transitive producer of a Lookup node lies in an earlier bucket, so none is a
\* node of its own bucket; and configuring the Lookup nodes of one bucket in
\* any order records the same configs and the same set of table keys.
C18_IndependentLookups ==
    /\ Scheduled =>
          \A i \in LookupNodes : \A n \in Producers(i) : bucket[n] < bucket[i]
    /\ Configured =>
          \A b \in Buckets :
              \A p, q \in Orders(BucketLookups(b)) :
                  /\ LookupPass(b, p).status = "ok"
                  /\ DOMAIN LookupPass(b, p).tables = DOMAIN LookupPass(b, q).tables
                  /\ DOMAIN LookupPass(b, p).configs = BucketLookups(b)
                  /\ \A i \in BucketLookups(b) :
                        /\ Unshared(LookupPass(b, p).configs[i]) = Unshared(LookupPass(b, q).configs[i])
                        /\ Unshared(LookupPass(b, p).configs[i]) = Unshared(configs[i])

\* two Lookup nodes with different ops share a bucket after configure
C18_Witness ==
    /\ Configured
    /\ \E i, j \in LookupNodes :
          /\ i # j
          /\ bucket[i] = bucket[j]
          /\ nodes[i].op # nodes[j].op

\* C19: layout processes the compiled configs over buckets in ascending bucket
\* order and, within each bucket, in ascending node index: no config of a
\* later bucket is laid out before a config of an earlier bucket.  Stated for
\* the configs that lay out a region (Lookup and fused Poly configs).
C19_LayoutBucketOrder ==
    pc \in {"layout", "done"} =>
        \A k, l \in 1..Len(order) :
            (k < l /\ {configs[order[k]].kind, configs[order[l]].kind} \subseteq {"Poly", "Lookup"}) =>
                \/ bucket[order[k]] < bucket[order[l]]
                \/ bucket[order[k]] = bucket[order[l]] /\ order[k] < order[l]

\* the fused Poly configs: the keys under which configure recorded a group
PolyConfigs == {i \in DOMAIN configs : configs[i].kind = "Poly"}

\* the first reference to outside node n in group b: <<node index, position>>
\* as one number, references ordered by node index and then input position
FirstUse(b, n) ==
    SetMin({x[1] * 10 + x[2] :
               x \in {y \in Group(b) \X (1..SetMax(Arities)) :
                         /\ y[2] <= Len(nodes[y[1]].inputs)
                         /\ nodes[y[1]].inputs[y[2]] = n}})

\* C20: in a fusion group, external inputs are deduplicated in
\* first-encountered order: an outside node consumed by several Poly nodes of
\* the group, or several times by one node, gets exactly one column slot,
\* every Input(k) reference to it carries the same k, and the number of bound
\* external columns equals the number of distinct outside input nodes.
C20_ExternalInputsDeduplicated ==
    Configured =>
        \A g \in PolyConfigs :
            LET c == configs[g]
                b == bucket[g]
            IN /\ Range(c.inputs) = External(b)
               /\ Len(c.inputs) = Cardinality(External(b))
               /\ Len(c.cols) = Cardinality(External(b))
               /\ \A j, k \in 1..Len(c.cols) : j # k => c.cols[j] # c.cols[k]
               /\ \A j, k \in 1..Len(c.inputs) :
                     j < k => FirstUse(b, c.inputs[j]) < FirstUse(b, c.inputs[k])
               /\ \A f \in 1..Len(c.fused) :
                     \A q \in 1..Len(nodes[c.fused[f].idx].inputs) :
                         LET n == nodes[c.fused[f].idx].inputs[q]
                         IN n \notin Group(b) =>
                               /\ c.fused[f].input_order[q][1] = "Input"
                               /\ c.inputs[c.fused[f].input_order[q][2] + 1] = n

\* two Poly nodes of one group consume the same outside node, one of them twice
C20_Witness ==
    /\ Configured
    /\ \E g \in PolyConfigs :
          \E i, j \in Group(bucket[g]) :
              /\ i # j
              /\ \E n \in External(bucket[g]) :
                    /\ nodes[i].inputs = <<n, n>>
                    /\ n \in Range(nodes[j].inputs)

\* the positions of config c's external inputs bound to a column of one kind
ColumnsOfKind(c, kind) == {k \in 1..Len(c.cols) : c.cols[k].kind = kind}

\* C21: in a fusion group, an external input that is a Const node is bound to
\* a fixed column when params are Public and to an advice column otherwise;
\* every external input takes the next unused slot of its column kind (fixed
\* and advice slots counted separately, each from 0 for every bucket), so no
\* two distinct external inputs of one group share a column.
C21_ExternalInputColumns ==
    Configured =>
        \A g \in PolyConfigs :
            LET c == configs[g]
            IN /\ \A k \in 1..Len(c.inputs) :
                     /\ c.cols[k].kind =
                           IF nodes[c.inputs[k]].opkind = "Const" /\ visibility.params
                           THEN "fixed" ELSE "advice"
                     /\ c.cols[k].slot =
                           Cardinality({j \in ColumnsOfKind(c, c.cols[k].kind) : j < k})
               /\ \A kind \in {"fixed", "advice"} :
                     {c.cols[k].slot : k \in ColumnsOfKind(c, kind)} =
                         0..(Cardinality(ColumnsOfKind(c, kind)) - 1)
               /\ \A j, k \in 1..Len(c.inputs) :
                     c.inputs[j] # c.inputs[k] => c.cols[j] # c.cols[k]

\* params are Public and a group binds a Const input to a fixed column after
\* a non-Const input bound to an advice column
C21_Witness ==
    /\ Configured
    /\ visibility.params
    /\ \E g \in PolyConfigs :
          \E j, k \in 1..Len(configs[g].inputs) :
              /\ j < k
              /\ nodes[configs[g].inputs[j]].opkind # "Const"
              /\ nodes[configs[g].inputs[k]].opkind = "Const"
              /\ configs[g].cols[j] = Advice(0)
              /\ configs[g].cols[k] = Fixed(0)

\* the buckets that hold a Poly node
PolyBuckets == {b \in Buckets : Group(b) # {}}

\* C22: for each bucket that contains Poly nodes, configure produces exactly
\* one fused Poly config, recorded under the group's maximum node index; its
\* output is bound to the advice column at the first advice slot not used by
\* the group's external inputs; and that maximum-index node is the
\* last-computed value of the fusion: every other Poly node of the group
\* feeds, directly or transitively, into it.
C22_FusedConfig ==
    Configured =>
        /\ \A b \in PolyBuckets :
              LET g == SetMax(Group(b))
              IN /\ {i \in PolyConfigs : bucket[i] = b} = {g}
                 /\ configs[g].output.kind = "advice"
                 /\ configs[g].output.slot =
                       SetMin({k \in 0..Len(configs[g].cols) :
                                  Advice(k) \notin Range(configs[g].cols)})
                 /\ \A i \in Group(b) \ {g} : i \in Producers(g)
        /\ Cardinality(PolyConfigs) = Cardinality(PolyBuckets)

\* the Poly nodes of group b whose value another node of the group consumes
Intermediates(b) == {n \in Group(b) : \E i \in Group(b) : n \in Range(nodes[i].inputs)}

\* the number an intermediate value gets when the values are numbered in the
\* order they are first encountered
InterNumber(b, n) ==
    Cardinality({m \in Intermediates(b) : FirstUse(b, m) < FirstUse(b, n)})

\* C23: in a fused gate the nodes appear in ascending node index, each node's
\* input_order lists its inputs in the node's own input order, and an input
\* produced by another Poly node of the group becomes Inter(k), k numbered in
\* the order the intermediate values are first encountered, so two references
\* to the same intermediate producer carry the same k.
C23_InputOrder ==
    Configured =>
        \A g \in PolyConfigs :
            LET c == configs[g]
                b == bucket[g]
            IN /\ [f \in 1..Len(c.fused) |-> c.fused[f].idx] = Ascending(Group(b))
               /\ \A f \in 1..Len(c.fused) :
                     LET ins == nodes[c.fused[f].idx].inputs
                         ord == c.fused[f].input_order
                     IN /\ Len(ord) = Len(ins)
                        /\ \A q \in 1..Len(ins) :
                              IF ins[q] \in Group(b)
                              THEN ord[q] = <<"Inter", InterNumber(b, ins[q])>>
                              ELSE ord[q] = <<"Input", position(c.inputs, ins[q])>>

\* layout has just seeded the results map and has processed no config yet
Seeded == pc = "layout" /\ cursor = 0

\* C24: layout seeds the results map so that the value of each graph Input
\* node is recorded under that Input node's own index (the supplied value when
\* inputs are Private, the bound instance-column value when inputs are
\* Public), wherever the Input nodes stand in the index order.
C24_SeededByNodeIndex ==
    Seeded =>
        \A k \in 1..Len(model_inputs(nodes)) :
            /\ model_inputs(nodes)[k] \in DOMAIN results
            /\ results[model_inputs(nodes)[k]] =
                  IF visibility.input THEN <<"instance", k - 1>> ELSE <<"input", k - 1>>

\* the instance columns the seeding loop of layout bound to a graph input
InputInstances == {results[j][2] : j \in {i \in DOMAIN results : results[i][1] = "instance"}}

\* the instance columns the outputs were range-checked against
OutputInstances == {checked[k][2] : k \in 1..Len(checked)}

\* C25: every instance column index layout reads is in range and
\* unambiguous: input i reads instance i only when inputs are Public, output i
\* is range-checked against instance (number of inputs if inputs are Public,
\* else 0) + i, and these indices are pairwise distinct and all strictly
\* below num_instances().
C25_InstanceIndices ==
    /\ Seeded =>
          /\ InputInstances =
                IF visibility.input THEN 0..(Cardinality(InputNodes) - 1) ELSE {}
          /\ \A j \in DOMAIN results : results[j][2] = j
          /\ \A n \in InputInstances : n < alloc.instances
    /\ pc = "done" =>
          /\ \A k \in 1..Len(checked) :
                /\ checked[k][1] = outputs[k]
                /\ checked[k][2] =
                      (IF visibility.input THEN Cardinality(InputNodes) ELSE 0) + (k - 1)
                /\ checked[k][2] < alloc.instances
                /\ visibility.input => checked[k][2] \notin 0..(Cardinality(InputNodes) - 1)
          /\ Cardinality(OutputInstances) = Len(checked)

\* inputs and outputs are Public; an input was read from its instance column
\* and two outputs were range-checked against theirs
C25_Witness ==
    /\ pc = "done"
    /\ visibility.input /\ visibility.output
    /\ InputNodes # {}
    /\ Len(checked) = 2
    /\ OutputInstances = {Cardinality(InputNodes), Cardinality(InputNodes) + 1}

\* the largest number of Lookup nodes on a path from an Input node to node i
\* (i included); paths run through non-Const producers
RECURSIVE LookupDepth(_)
LookupDepth(i) ==
    (IF nodes[i].opkind = "Lookup" THEN 1 ELSE 0)
    + SetMax({0} \cup {LookupDepth(n) : n \in NonConstInputs(i)})

\* the numeric buckets in use
NumericBuckets == Buckets \ {None}

\* C26: the scheduler produces the minimum number of sequential regions:
\* every Input node has bucket 0, the bucket of every Poly or Lookup node
\* equals the largest number of Lookup nodes on any path from an Input node to
\* it (the node itself included), and the numeric buckets in use form the
\* contiguous range 0..D with no empty bucket, D the largest such count.
C26_MinimalBuckets ==
    Scheduled =>
        /\ \A i \in DOMAIN nodes :
              /\ nodes[i].opkind = "Input" => bucket[i] = 0
              /\ nodes[i].opkind \in {"Poly", "Lookup"} => bucket[i] = LookupDepth(i)
        /\ NumericBuckets # {} =>
              NumericBuckets =
                  0..SetMax({LookupDepth(i) : i \in {j \in DOMAIN nodes : bucket[j] # None}})

\* a Poly node joins a path through a Lookup node with a path that holds
\* none; buckets 0 and 1 are the ones in use
C26_Witness ==
    /\ Scheduled
    /\ \E i \in DOMAIN nodes :
          /\ nodes[i].opkind = "Poly"
          /\ bucket[i] = 1
          /\ \E m, n \in NonConstInputs(i) : bucket[m] = 0 /\ bucket[n] = 1
    /\ NumericBuckets = 0..1

\* C27: for every well-formed graph (producers precede consumers, every Poly
\* and Lookup node has at least one input, kinds limited to Input, Const, Poly
\* and Lookup), assign_execution_buckets completes without an error or a panic
\* and returns a NodeGraph that holds every node exactly once, including when
\* all inputs of a Poly or Lookup node are Const nodes.
C27_WellFormedSchedules ==
    (pc = "new" /\ nodes \in Graphs) =>
        /\ status = "ok"
        /\ DOMAIN bucket = DOMAIN nodes
        /\ \A i \in DOMAIN nodes :
              Cardinality({b \in Buckets : i \in bucket_nodes(bucket, b)}) = 1

\* the errors assign_execution_buckets returns
SchedulingErrors == {"MissingNode", "WrongMethod"}

\* node f is the first node, in index order, that the scheduler cannot
\* schedule, and the error returned is the one node f raises
FirstFailure(f) ==
    /\ Visited(f)
    /\ \/ /\ Unvisited(f) # {}
          /\ status = "MissingNode"
          /\ error = <<nodes[f].inputs[SetMin(Unvisited(f))]>>
       \/ /\ Unvisited(f) = {}
          /\ f \in Unhandled
          /\ status = "WrongMethod"
          /\ error = <<f, nodes[f].opkind>>

\* C28: a scheduling or configure error aborts the whole compile at the first
\* failing node in processing order: the error is returned, no later node is
\* scheduled or configured, and no partial NodeGraph or ModelConfig is
\* returned.
C28_ErrorAborts ==
    /\ status \in SchedulingErrors =>
          /\ pc \in {"new", "scheduled"}
          /\ \E f \in DOMAIN nodes : FirstFailure(f)
          /\ bucket = <<>>
          /\ alloc = NoAlloc
          /\ configs = <<>> /\ tables = <<>> /\ public_outputs = <<>>
    /\ (pc \in {"new", "scheduled"} /\ status = "ok") => DOMAIN bucket = DOMAIN nodes
    /\ (pc = "configured" /\ status # "ok") =>
          configs = <<>> /\ public_outputs = <<>>
    /\ (pc = "configured" /\ status = "ok") =>
          \A i \in DOMAIN nodes : \E g \in DOMAIN configs :
              \/ g = i
              \/ configs[g].kind = "Poly" /\ i \in Group(bucket[g])

\* the first node of the map is of a kind the scheduler does not handle and
\* the node after it is one it would have scheduled
C28_Witness ==
    /\ pc = "scheduled"
    /\ status = "WrongMethod"
    /\ FirstFailure(0)
    /\ nodes[1].opkind = "Input"
    /\ bucket = <<>>

\* the nodes handed to the routine that has just returned
Handed == Range(order)

\* C29: each configure routine that receives a node of a kind it does not
\* handle returns WrongMethod carrying the node's index and kind:
\* conf_poly_ops for any non-Poly node, conf_table for any non-Lookup node,
\* and conf_non_op_node for any node that is neither Const nor Input (Unknown
\* included).
C29_RoutineWrongMethod ==
    /\ pc = "conf_poly_ops" =>
          ((\E i \in Handed : nodes[i].opkind # "Poly") =>
              /\ status = "WrongMethod"
              /\ \E i \in Handed : nodes[i].opkind # "Poly" /\ error = <<i, nodes[i].opkind>>)
    /\ pc = "conf_table" =>
          \A i \in Handed :
              nodes[i].opkind # "Lookup" =>
                  status = "WrongMethod" /\ error = <<i, nodes[i].opkind>>
    /\ pc = "conf_non_op_node" =>
          \A i \in Handed :
              nodes[i].opkind \notin {"Const", "Input"} =>
                  status = "WrongMethod" /\ error = <<i, nodes[i].opkind>>

====
